---- MODULE Spec2Model ----
(***************************************************************************)
(* Response caching and streaming generation of the HuggingFace chat       *)
(* front-end: the bounded in-process cache (SimpleCache / MemoryCache),     *)
(* the cache-key derivation of HuggingFaceAPI and its generate_stream       *)
(* generator, driven by the Streamlit script runs of main().                *)
(***************************************************************************)
EXTENDS Integers, Sequences, FiniteSets, TLC

\* ------------------------------------------------------------------ bounds
\* largest configured capacity (MAX_CACHE_SIZE) the model explores
MaxCap == 2
\* largest configured default TTL (CACHE_TTL): beyond the clock's horizon
MaxTtl == 3
\* the clock stops advancing here
MaxTime == 2
\* longest session history given to the key derivation
MaxHist == 12
\* chat inputs submitted in a session
MaxTurns == 2
\* threads that share one cache
MaxThreads == 2
\* lines read from the remote endpoint in a call
MaxLines == 3
\* lines read from the remote endpoint in a chat session
MaxChatLines == 2

VARIABLES
    max_size,   \* SimpleCache.max_size (MAX_CACHE_SIZE of the environment)
    ttl,        \* SimpleCache.ttl (CACHE_TTL of the environment)
    cache,      \* SimpleCache.cache: the dict, as its items in insertion order
    now,        \* time.time()
    call,       \* the last cache operation, as the cache's log lines record it
    inserted,   \* the <<key, value, time>> of the setex calls since
                \* construction, while they are the only operations so far
                \* and their keys are pairwise distinct; <<>> afterwards
    messages,   \* st.session_state.messages
    sess,       \* st.session_state: max_tokens, temperature, top_p, rep_penalty
    prompt,     \* the prompt argument of the call in progress
    cache_key,  \* cache_key of the call in progress
    pc,         \* where the call in progress stands
    redis_client,     \* HuggingFaceAPI.redis_client is a client (not None)
    redis_store,      \* the keys of the Redis service: key, value, expire_at
    total_tokens_sent,      \* st.session_state.total_tokens_sent
    total_tokens_received,  \* st.session_state.total_tokens_received
    cached_response,  \* generate_stream: cached_response
    tokens_sent,      \* generate_stream: tokens_sent
    full_response,    \* generate_stream: full_response
    tokens_received,  \* generate_stream: tokens_received
    pending,          \* the characters the running for-char loop has yet to yield
    emitted,          \* the fragments the generator has yielded, in order
    lines_read,       \* lines taken from response.iter_lines() by this call
    posts,            \* requests.post calls issued by this call
    chunks,           \* the chunks this call took a text from, in order
    turns,            \* prompts submitted in this session
    saved,            \* the last "Saved response to cache" of the process
    lock,             \* SimpleCache._lock: the thread that holds it, 0 if free
    threads           \* each thread's place in the cache operation it runs

cacheVars == <<max_size, ttl, cache, now, call, inserted>>
keyVars == <<messages, sess, prompt, cache_key, pc>>
redisVars == <<redis_client, redis_store>>
countVars == <<total_tokens_sent, total_tokens_received>>
genVars == <<cached_response, tokens_sent, full_response, tokens_received,
             pending, emitted, lines_read, chunks, posts>>
runVars == <<turns, saved>>
threadVars == <<lock, threads>>
vars == <<max_size, ttl, cache, now, call, inserted,
          messages, sess, prompt, cache_key, pc,
          redis_client, redis_store, total_tokens_sent, total_tokens_received,
          cached_response, tokens_sent, full_response, tokens_received,
          pending, emitted, lines_read, chunks, posts, turns, saved,
          lock, threads>>

\* ------------------------------------------------------------ Python values
\* Python's None; never a member of Values or of any text of the model
None == "<None>"

Min(a, b) == IF a < b THEN a ELSE b
Max(a, b) == IF a > b THEN a ELSE b

\* ------------------------------------------------- dict, in insertion order
Entry(k, v, t) == [key |-> k, value |-> v, timestamp |-> t]

\* key in d
Has(d, k) == \E i \in 1..Len(d) : d[i].key = k

\* d[key]
Item(d, k) == d[CHOOSE i \in 1..Len(d) : d[i].key = k]

\* del d[key]
DictDel(d, k) == SelectSeq(d, LAMBDA e : e.key # k)

\* mutant of DictSet: a stored key keeps its old value
DictSet_keep_old(d, k, v, t) ==
    IF Has(d, k) THEN d ELSE Append(d, Entry(k, v, t))

\* d[key] = (value, timestamp): an existing key keeps its place in the order
DictSet(d, k, v, t) ==
    IF Has(d, k)
    THEN [i \in 1..Len(d) |-> IF d[i].key = k THEN Entry(k, v, t) ELSE d[i]]
    ELSE Append(d, Entry(k, v, t))

\* mutant of OldestKey: the item set last is the one evicted
OldestKey_newest(d) == d[Len(d)].key

\* min(d.items(), key=lambda x: x[1][1])[0]: the first item, in the dict's
\* order, among those of the smallest timestamp
OldestKey(d) ==
    d[CHOOSE i \in 1..Len(d) :
         \A j \in 1..Len(d) :
            \/ d[i].timestamp < d[j].timestamp
            \/ (d[i].timestamp = d[j].timestamp /\ i <= j)].key

\* ------------------------------------------------------------- SimpleCache
\* mutant of Fresh: an entry of age ttl is still returned
Fresh_at_ttl(d, k, t, T) == Has(d, k) /\ t - Item(d, k).timestamp <= T

\* the entry of key is stored and time.time() - timestamp < self.ttl
Fresh(d, k, t, T) == Has(d, k) /\ t - Item(d, k).timestamp < T

\* what get(key) returns at time t under default TTL T
GetRet(d, k, t, T) == IF Fresh(d, k, t, T) THEN Item(d, k).value ELSE None

\* mutant of GetCache: a hit renews the timestamp of the entry
GetCache_touch(d, k, t, T) ==
    IF Has(d, k) /\ ~Fresh(d, k, t, T) THEN DictDel(d, k)
    ELSE IF Has(d, k)
    THEN [i \in 1..Len(d) |->
             IF d[i].key = k THEN Entry(k, d[i].value, t) ELSE d[i]]
    ELSE d

\* the dict after get(key): an expired entry of key is deleted
GetCache(d, k, t, T) ==
    IF Has(d, k) /\ ~Fresh(d, k, t, T) THEN DictDel(d, k) ELSE d

\* the key get(key) deletes ("Cache expired for key"), None when it deletes
\* nothing
Expired(d, k, t, T) == IF Has(d, k) /\ ~Fresh(d, k, t, T) THEN k ELSE None

\* setex(key, expire_time, value) raises ValueError: min() of an empty dict
SetexRaises(d, cap) == Len(d) >= cap /\ Len(d) = 0

\* the dict after setex(key, expire_time, value) at time t; expire_time is
\* not read
SetexCache(d, cap, k, e, v, t) ==
    IF SetexRaises(d, cap) THEN d
    ELSE DictSet(IF Len(d) >= cap THEN DictDel(d, OldestKey(d)) ELSE d, k, v, t)

\* ------------------------------------------------- inputs of the cache ops
KeyNames == <<"A", "B", "C", "D", "E", "F">>
Keys == {KeyNames[i] : i \in 1..Min(MaxCap + 1, Len(KeyNames))}
Values == {"", "v"}
\* per-call expire_time: one tick, below the longest default TTL
ExpireTimes == {1}
\* configured CACHE_TTL: one tick, and longer than the clock runs
Ttls == {1, MaxTtl}

\* the key setex(...) removes to make room ("Cache full. Removed oldest
\* key"), None when it removes nothing
Evicted(d, cap) ==
    IF Len(d) >= cap /\ ~SetexRaises(d, cap) THEN OldestKey(d) ELSE None

CallRec(op, k, e, v, r, t, x) ==
    [op |-> op, key |-> k, expire_time |-> e, value |-> v, ret |-> r, at |-> t,
     evicted |-> x]

\* ------------------------------------------------------------------ strings
\* s[:n]
Take(s, n) == SubSeq(s, 1, Min(n, Len(s)))

\* s with the character at position p (from 1) replaced by c
SetChar(s, p, c) == SubSeq(s, 1, p - 1) \o c \o SubSeq(s, p + 1, Len(s))

Digits == <<"0", "1", "2", "3", "4", "5", "6", "7", "8", "9">>

\* str(n) of an int n >= 0
RECURSIVE IntStr(_)
IntStr(n) ==
    IF n < 10 THEN Digits[n + 1] ELSE IntStr(n \div 10) \o Digits[(n % 10) + 1]

\* repr of the float tenths/10, as json.dumps writes the sliders' values
FloatStr(tenths) == IntStr(tenths \div 10) \o "." \o IntStr(tenths % 10)

\* json.dumps of a str, without the quotes around it: the quote, the
\* backslash and the newline are escaped, every other character of the model
\* stands as it is (the string is escaped half by half)
RECURSIVE JsonEscape(_)
JsonEscape(s) ==
    IF s = "" THEN ""
    ELSE IF Len(s) = 1
    THEN (IF s = "\"" THEN "\\\"" ELSE IF s = "\\" THEN "\\\\"
          ELSE IF s = "\n" THEN "\\n" ELSE s)
    ELSE JsonEscape(SubSeq(s, 1, Len(s) \div 2))
            \o JsonEscape(SubSeq(s, (Len(s) \div 2) + 1, Len(s)))

JsonStr(s) == "\"" \o JsonEscape(s) \o "\""

JsonBool(b) == IF b THEN "true" ELSE "false"

\* ------------------------------------------------------ HuggingFaceAPI, key
\* the slice [:100] of the content of a message in the cache key
ContentLimit == 100
\* the slice [-10:-1] of the messages
WindowSize == 10

\* mutant of LastMessages: the slice starts one message earlier
LastMessages_11(msgs) ==
    IF Len(msgs) > 1
    THEN SubSeq(msgs, Max(1, Len(msgs) - WindowSize), Len(msgs) - 1)
    ELSE <<>>

\* st.session_state.messages[-10:-1] if len(st.session_state.messages) > 1
\* else []
LastMessages(msgs) ==
    IF Len(msgs) > 1
    THEN SubSeq(msgs, Max(1, Len(msgs) - WindowSize + 1), Len(msgs) - 1)
    ELSE <<>>

\* mutant of KeyContent: one character less of the content is kept
KeyContent_99(content) == Take(content, ContentLimit - 1)

\* msg["content"][:100]
KeyContent(content) == Take(content, ContentLimit)

\* json.dumps({"role": ..., "content": ...}, sort_keys=True)
JsonMessage(msg) ==
    "{\"content\": " \o JsonStr(KeyContent(msg.content))
        \o ", \"role\": " \o JsonStr(msg.role) \o "}"

\* json.dumps([...], sort_keys=True) of the reduced messages
RECURSIVE JsonList(_)
JsonList(msgs) ==
    IF msgs = <<>> THEN ""
    ELSE JsonMessage(Head(msgs))
            \o (IF Len(msgs) > 1 THEN ", " ELSE "") \o JsonList(Tail(msgs))

\* context of _get_cache_key: "" for no messages, else the dumped slice
Context(msgs) ==
    IF msgs # <<>> THEN "[" \o JsonList(LastMessages(msgs)) \o "]" ELSE ""

\* _get_params(): the parameters of the session; generate_stream adds
\* "stream": True, generate adds nothing
_get_params(ss, stream) ==
    [max_new_tokens |-> ss.max_tokens, temperature |-> ss.temperature,
     top_p |-> ss.top_p, repetition_penalty |-> ss.rep_penalty,
     do_sample |-> TRUE, return_full_text |-> FALSE, stream |-> stream]

\* json.dumps(params, sort_keys=True)
JsonParams(params) ==
    "{\"do_sample\": " \o JsonBool(params.do_sample)
    \o ", \"max_new_tokens\": " \o IntStr(params.max_new_tokens)
    \o ", \"repetition_penalty\": " \o FloatStr(params.repetition_penalty)
    \o ", \"return_full_text\": " \o JsonBool(params.return_full_text)
    \o (IF params.stream THEN ", \"stream\": true" ELSE "")
    \o ", \"temperature\": " \o FloatStr(params.temperature)
    \o ", \"top_p\": " \o FloatStr(params.top_p) \o "}"

\* hashlib.md5(s.encode()).hexdigest(), as an injective function of s
Md5Hex(s) == "md5<" \o s \o ">"

\* _get_cache_key(prompt, params), reading the session's messages
_get_cache_key(p, params, msgs) ==
    "hf_cache:" \o Md5Hex("v1:" \o p \o ":" \o Context(msgs) \o ":"
                             \o JsonParams(params))

\* ---------------------------------------------- inputs of the key derivation
\* the session as setup_sidebar leaves it; temperature, top_p and
\* rep_penalty in tenths
DefaultSess ==
    [max_tokens |-> 1024, temperature |-> 7, top_p |-> 9, rep_penalty |-> 11]

\* the values each slider is tried at
SliderValues ==
    [max_tokens |-> {64, 1024, 2048}, temperature |-> {0, 7, 10},
     top_p |-> {0, 9, 10}, rep_penalty |-> {10, 11, 20}]

\* the sessions a key is derived for: the sliders untouched, one moved
SessInputs == {DefaultSess, [DefaultSess EXCEPT !.max_tokens = 64]}

Prompts == {"Hello", "Hello:[]"}

Roles == {"user", "assistant"}

\* 100 characters
Long100 ==
    "aaaaaaaaaaaaaaaaaaaaaaaaaaaaaaaaaaaaaaaaaaaaaaaaaa"
        \o "aaaaaaaaaaaaaaaaaaaaaaaaaaaaaaaaaaaaaaaaaaaaaaaaaa"

\* contents: empty, with a quote, of 100 and of 101 characters
Contents == {"", "a\"b", Long100, Long100 \o "a"}

Message(r, c) == [role |-> r, content |-> c]

MsgInputs == {Message(r, c) : r \in Roles, c \in Contents}

\* the turns of a plain conversation: user and assistant in turn
BaseHistory(n) ==
    [i \in 1..n |-> IF i % 2 = 1 THEN Message("user", "a")
                    ELSE Message("assistant", "b")]

\* h with message i replaced by m
Replace(h, i, m) == [h EXCEPT ![i] = m]

\* histories of up to MaxHist messages: a plain conversation, with at most
\* one message of it replaced by any message
HistoryInputs ==
    UNION {{BaseHistory(n)}
             \cup {Replace(BaseHistory(n), i, m) : i \in 1..n, m \in MsgInputs} :
           n \in 0..MaxHist}


\* ------------------------------------------------- word counts and prompts
\* the separators of str.split() that occur in the model
IsSpace(c) == c \in {" ", "\n", "\t"}

CharAt(s, i) == SubSeq(s, i, i)

\* len(s.split()): the positions where a word starts
WordCount(s) ==
    Cardinality({i \in 1..Len(s) :
                    /\ ~IsSpace(CharAt(s, i))
                    /\ (i = 1 \/ IsSpace(CharAt(s, i - 1)))})

\* bool(s.strip())
HasText(s) == \E i \in 1..Len(s) : ~IsSpace(CharAt(s, i))

\* "".join(fragments)
RECURSIVE Concat(_)
Concat(q) == IF q = <<>> THEN "" ELSE Head(q) \o Concat(Tail(q))

SystemPrompt ==
    "You are a helpful AI coding assistant. "
        \o "You provide clear, concise, and accurate responses."

\* conversation_context of format_prompt: the content is not cut here
RECURSIVE ConversationContext(_)
ConversationContext(msgs) ==
    IF msgs = <<>> THEN ""
    ELSE "<|im_start|>"
            \o (IF Head(msgs).role = "user" THEN "user" ELSE "assistant")
            \o "\n" \o Head(msgs).content \o "\n<|im_end|>\n"
            \o ConversationContext(Tail(msgs))

\* format_prompt(text), reading the session's messages
format_prompt(text, msgs) ==
    "<|im_start|>system\n" \o SystemPrompt \o "\n<|im_end|>\n"
        \o ConversationContext(IF msgs # <<>> THEN LastMessages(msgs) ELSE <<>>)
        \o "<|im_start|>user\n" \o text \o "\n<|im_end|>\n<|im_start|>assistant\n"

\* content.split("\n")
RECURSIVE SplitLines(_)
SplitLines(s) ==
    IF \E i \in 1..Len(s) : CharAt(s, i) = "\n"
    THEN LET i == CHOOSE i \in 1..Len(s) :
                     /\ CharAt(s, i) = "\n"
                     /\ \A j \in 1..(i - 1) : CharAt(s, j) # "\n"
         IN  <<SubSeq(s, 1, i - 1)>> \o SplitLines(SubSeq(s, i + 1, Len(s)))
    ELSE <<s>>

\* "\n".join(formatted_lines)
RECURSIVE JoinLines(_)
JoinLines(q) ==
    IF Len(q) = 1 THEN q[1] ELSE q[1] \o "\n" \o JoinLines(Tail(q))

\* format_code_in_message(content) of a content without backquote: no code
\* block opens and every line is appended as it is (no response of the
\* model has a backquote)
format_code_in_message(content) == JoinLines(SplitLines(content))

\* f"Error: {str(e)}" of a RequestException
ErrorFragment == "Error: 503 Server Error"

\* ------------------------------------------------- the transport's lines
\* JSON values, as json.loads returns them
JStr(x) == [t |-> "str", s |-> x]
JNum(x) == [t |-> "num", n |-> x]
JNull == [t |-> "null"]
JList(q) == [t |-> "list", items |-> q]
JDict(f) == [t |-> "dict", fields |-> f]
\* bytes that json.loads rejects: JSONDecodeError
NotJson == [t |-> "invalid"]
\* bytes that are not UTF-8: json.loads raises UnicodeDecodeError
NotUtf8 == [t |-> "undecodable"]

\* b""
BlankLine == [raw |-> "blank"]
\* b"data: [DONE]"
DoneLine == [raw |-> "done"]
\* any other line: with or without the b"data: " prefix, and what
\* json.loads makes of the rest
DataLine(prefixed, body) == [raw |-> "data", prefixed |-> prefixed, body |-> body]

Skip == [kind |-> "skip", text |-> ""]

\* mutant of Accumulate: the accumulator keeps the last text only
Accumulate_last(full, text) == text

\* full_response += text
Accumulate(full, text) == full \o text

\* mutant of NextChar: two characters at a time
NextChar_two(text) == SubSeq(text, 1, Min(2, Len(text)))

\* for char in text: the character yielded, and what is left to yield
NextChar(text) == SubSeq(text, 1, 1)

RestChars(text) == SubSeq(text, 2, Len(text))

\* chunk = chunk[0] for a non-empty list
FirstOfList(j) == IF j.t = "list" /\ j.items # <<>> THEN j.items[1] ELSE j

\* what the body of the try does with a parsed chunk: a dict with
\* "generated_text", a dict with a dict "token", or nothing; a text that is
\* not a str makes += raise TypeError, which is caught
ChunkEffect(chunk) ==
    IF chunk.t # "dict" THEN Skip
    ELSE IF "generated_text" \in DOMAIN chunk.fields
    THEN IF chunk.fields.generated_text.t = "str"
         THEN [kind |-> "generated_text", text |-> chunk.fields.generated_text.s]
         ELSE Skip
    ELSE IF "token" \in DOMAIN chunk.fields /\ chunk.fields.token.t = "dict"
    THEN LET text == IF "text" \in DOMAIN chunk.fields.token.fields
                     THEN chunk.fields.token.fields.text ELSE JStr("")
         IN  IF text.t = "str" THEN [kind |-> "token", text |-> text.s] ELSE Skip
    ELSE Skip

\* one pass of the for loop over response.iter_lines()
LineEffect(line) ==
    IF line.raw \in {"blank", "done"} THEN Skip
    ELSE IF line.body = NotUtf8 THEN [kind |-> "raise", text |-> ""]
    ELSE IF line.body = NotJson THEN Skip
    ELSE ChunkEffect(FirstOfList(line.body))

\* texts of the chunks
GenTexts == {"Hi", "a b"}
TokenTexts == {"Hi", " "}

\* the lines the remote endpoint may send
Lines ==
    {BlankLine, DoneLine}
    \cup {DataLine(TRUE, JDict([generated_text |-> JStr(x)])) : x \in GenTexts}
    \cup {DataLine(FALSE, JList(<<JDict([generated_text |-> JStr("Hi")])>>))}
    \cup {DataLine(TRUE, JDict([token |-> JDict([text |-> JStr(x)])])) :
            x \in TokenTexts}
    \cup {DataLine(TRUE, b) :
            b \in {NotJson, NotUtf8, JNull, JStr("x"), JList(<<>>),
                   JList(<<JNum(1)>>), JDict([error |-> JStr("x")]),
                   JDict([generated_text |-> JNull]),
                   JDict([token |-> JStr("x")]),
                   JDict([token |-> JDict([id |-> JNum(1)])]),
                   JDict([token |-> JDict([text |-> JNull])])}}
    \cup {DataLine(FALSE, NotJson)}

\* the lines of the chat's remote endpoint
ChatLines ==
    {DataLine(TRUE, JDict([generated_text |-> JStr("Hi")])),
     DataLine(TRUE, JDict([token |-> JDict([text |-> JStr(" ")])])),
     DataLine(TRUE, NotUtf8)}

\* what the user types
ChatInputs == {"Hello"}

\* ------------------------------------------------------------------- Redis
\* GET key at time t: the value, None once the key has expired
RedisGet(store, k, t) ==
    IF \E x \in store : x.key = k /\ t < x.expire_at
    THEN (CHOOSE x \in store : x.key = k /\ t < x.expire_at).value
    ELSE None

\* SETEX key expire_time value at time t; expired keys are gone
RedisSetex(store, k, e, v, t) ==
    {x \in store : x.key # k /\ t < x.expire_at}
        \cup {[key |-> k, value |-> v, expire_at |-> t + e]}

\* the state of generate_stream's local variables when no call is running
NoCallInProgress ==
    /\ cached_response = None /\ tokens_sent = 0
    /\ full_response = "" /\ tokens_received = 0
    /\ pending = "" /\ emitted = <<>> /\ lines_read = 0 /\ posts = 0
    /\ chunks = <<>>

\* the threads that call the cache, and a thread outside any operation
Threads == 1..MaxThreads

Out == [pc |-> "out", op |-> None, key |-> None, value |-> None,
        evicted |-> None]

\* the lock is free and no thread is in an operation
NoThreads ==
    /\ lock = 0
    /\ threads = [t \in Threads |-> Out]

\* no response was saved yet
NoSave == [key |-> None, text |-> None, at |-> 0, turn |-> 0, store |-> None]

\* --------------------------------------------------- MemoryCache, directly
CacheInit ==
    /\ max_size \in 0..MaxCap
    /\ ttl \in Ttls
    /\ cache = <<>>
    /\ now = 0
    /\ call = CallRec("init", None, 0, None, None, 0, None)
    /\ inserted = <<>>
    /\ messages = <<>>
    /\ sess = DefaultSess
    /\ prompt = None
    /\ cache_key = None
    /\ pc = "idle"
    /\ NoCallInProgress
    /\ redis_client = FALSE /\ redis_store = {}
    /\ total_tokens_sent = 0 /\ total_tokens_received = 0
    /\ turns = 0 /\ saved = NoSave
    /\ NoThreads

\* every operation since construction was a setex, on pairwise distinct keys
OnlyDistinctSetex ==
    call.op = "init" \/ (call.op = "setex" /\ inserted # <<>>)

MemoryCache_get(k) ==
    /\ cache' = GetCache(cache, k, now, ttl)
    /\ call' = CallRec("get", k, 0, None, GetRet(cache, k, now, ttl), now,
                       Expired(cache, k, now, ttl))
    /\ inserted' = <<>>
    /\ UNCHANGED <<max_size, ttl, now>>
    /\ UNCHANGED <<keyVars, redisVars, countVars, genVars, runVars>>
    /\ UNCHANGED threadVars

MemoryCache_setex(k, e, v) ==
    /\ cache' = SetexCache(cache, max_size, k, e, v, now)
    /\ call' = CallRec("setex", k, e, v,
                       IF SetexRaises(cache, max_size) THEN "ValueError" ELSE None,
                       now, Evicted(cache, max_size))
    /\ inserted' =
          IF /\ OnlyDistinctSetex
             /\ \A i \in 1..Len(inserted) : inserted[i][1] # k
             /\ ~SetexRaises(cache, max_size)
             /\ Len(inserted) <= max_size
          THEN Append(inserted, <<k, v, now>>)
          ELSE <<>>
    /\ UNCHANGED <<max_size, ttl, now>>
    /\ UNCHANGED <<keyVars, redisVars, countVars, genVars, runVars>>
    /\ UNCHANGED threadVars

MemoryCache_clear ==
    /\ cache' = <<>>
    /\ call' = CallRec("clear", None, 0, None, None, now, None)
    /\ inserted' = <<>>
    /\ UNCHANGED <<max_size, ttl, now>>
    /\ UNCHANGED <<keyVars, redisVars, countVars, genVars, runVars>>
    /\ UNCHANGED threadVars

\* time passes
Tick ==
    /\ pc = "idle"
    /\ now < MaxTime
    /\ now' = now + 1
    /\ UNCHANGED <<max_size, ttl, cache, call, inserted>>
    /\ UNCHANGED <<keyVars, redisVars, countVars, genVars, runVars>>
    /\ UNCHANGED threadVars

CacheNext ==
    \/ \E k \in Keys : MemoryCache_get(k)
    \/ \E k \in Keys, e \in ExpireTimes, v \in Values : MemoryCache_setex(k, e, v)
    \/ MemoryCache_clear
    \/ Tick

SpecCache == CacheInit /\ [][CacheNext]_vars

\* ---------------------------------------------------- RedisCache, directly
\* "decode_responses" of REDIS_CONFIG: the client hands back str, not bytes
DecodeResponses == TRUE

\* self.client.get(key): nothing, or the stored text as a str or as bytes
ClientGet(store, k, t) ==
    IF RedisGet(store, k, t) = None THEN [type |-> "none", text |-> ""]
    ELSE [type |-> IF DecodeResponses THEN "str" ELSE "bytes",
          text |-> RedisGet(store, k, t)]

\* value.decode("utf-8"): bytes give their text, a str has no decode
\* (AttributeError)
Decode(value) ==
    IF value.type = "bytes" THEN [raises |-> FALSE, text |-> value.text]
    ELSE [raises |-> TRUE, text |-> ""]

RedisInit ==
    /\ max_size = MaxCap /\ ttl = 1
    /\ cache = <<>> /\ now = 0
    /\ call = CallRec("init", None, 0, None, None, 0, None)
    /\ inserted = <<>>
    /\ messages = <<>> /\ sess = DefaultSess
    /\ prompt = None /\ cache_key = None
    /\ pc = "idle"
    /\ NoCallInProgress
    /\ redis_client = TRUE /\ redis_store = {}
    /\ total_tokens_sent = 0 /\ total_tokens_received = 0
    /\ turns = 0 /\ saved = NoSave
    /\ NoThreads

\* all but the service's keys and the record of the last operation
RedisFrame ==
    /\ UNCHANGED <<max_size, ttl, cache, now, inserted, redis_client>>
    /\ UNCHANGED <<keyVars, countVars, genVars, runVars, threadVars>>

\* RedisCache.get(key): a value that is not empty is decoded and returned;
\* any exception, of the service (not ok) or of the decoding, is logged and
\* None is returned
RedisCache_get(k, ok) ==
    /\ LET value == ClientGet(redis_store, k, now)
           ret == IF ~ok \/ value.type = "none" \/ value.text = "" THEN None
                  ELSE IF Decode(value).raises THEN None
                  ELSE Decode(value).text
       IN  call' = CallRec(IF ok THEN "RedisCache.get" ELSE "RedisCache.error",
                           k, 0, None, ret, now, None)
    /\ UNCHANGED redis_store
    /\ RedisFrame

\* RedisCache.setex(key, expire_time, value): an exception of the service is
\* logged
RedisCache_setex(k, e, v, ok) ==
    /\ redis_store' = IF ok THEN RedisSetex(redis_store, k, e, v, now)
                      ELSE redis_store
    /\ call' = CallRec(IF ok THEN "RedisCache.setex" ELSE "RedisCache.error",
                       k, e, v, None, now, None)
    /\ RedisFrame

\* RedisCache.clear(): flushall; an exception of the service is logged
RedisCache_clear(ok) ==
    /\ redis_store' = IF ok THEN {} ELSE redis_store
    /\ call' = CallRec(IF ok THEN "RedisCache.clear" ELSE "RedisCache.error",
                       None, 0, None, None, now, None)
    /\ RedisFrame

RedisNext ==
    \/ \E k \in Keys, ok \in BOOLEAN : RedisCache_get(k, ok)
    \/ \E k \in Keys, e \in ExpireTimes, v \in Values, ok \in BOOLEAN :
          RedisCache_setex(k, e, v, ok)
    \/ \E ok \in BOOLEAN : RedisCache_clear(ok)
    \/ Tick

SpecRedis == RedisInit /\ [][RedisNext]_vars

\* --------------------------------------------------- key derivation, directly
KeyInit ==
    /\ max_size = 0 /\ ttl = 0 /\ cache = <<>> /\ now = 0
    /\ call = CallRec("init", None, 0, None, None, 0, None)
    /\ inserted = <<>>
    /\ messages \in HistoryInputs
    /\ \E p \in Prompts, ss \in SessInputs :
          /\ (p = "Hello" \/ ss = DefaultSess)
          /\ prompt = p
          /\ sess = ss
    /\ cache_key = None
    /\ pc = "inputs"
    /\ NoCallInProgress
    /\ redis_client = FALSE /\ redis_store = {}
    /\ total_tokens_sent = 0 /\ total_tokens_received = 0
    /\ turns = 0 /\ saved = NoSave
    /\ NoThreads

\* cache_key = self._get_cache_key(prompt, params), as generate_stream calls it
DeriveKey ==
    /\ pc = "inputs"
    /\ cache_key' = _get_cache_key(prompt, _get_params(sess, TRUE), messages)
    /\ pc' = "derived"
    /\ UNCHANGED <<messages, sess, prompt>>
    /\ UNCHANGED <<cacheVars, redisVars, countVars, genVars, runVars>>
    /\ UNCHANGED threadVars

KeyNext == DeriveKey

SpecKey == KeyInit /\ [][KeyNext]_vars

\* ------------------------------------------- the chat: main, generate_stream
\* the environment's configuration and an empty session
Init ==
    /\ max_size = MaxCap
    /\ ttl = 1
    /\ cache = <<>> /\ now = 0
    /\ call = CallRec("init", None, 0, None, None, 0, None)
    /\ inserted = <<>>
    /\ messages = <<>> /\ sess = DefaultSess
    /\ prompt = None /\ cache_key = None
    /\ pc = "idle"
    /\ NoCallInProgress
    /\ redis_client = FALSE /\ redis_store = {}
    /\ total_tokens_sent = 0 /\ total_tokens_received = 0
    /\ turns = 0 /\ saved = NoSave
    /\ NoThreads

\* HuggingFaceAPI(model_name, api_token) in main: the probe of Redis answers
\* up or not, and a new SimpleCache is made
NewApi(up) ==
    /\ redis_client' = up
    /\ cache' = <<>>

\* hf_api is a local of main: when the script run ends the object is gone
NoApi ==
    /\ redis_client' = FALSE
    /\ cache' = <<>>
    /\ call' = CallRec("init", None, 0, None, None, 0, None)

\* the locals of generate_stream are gone; lines_read counts over the session
NoCall ==
    /\ cached_response' = None /\ tokens_sent' = 0
    /\ full_response' = "" /\ tokens_received' = 0
    /\ pending' = "" /\ emitted' = <<>> /\ posts' = 0
    /\ chunks' = <<>>
    /\ UNCHANGED lines_read

\* the fence of a code block, three backquotes: written with apostrophes,
\* as a string of this module cannot hold a backquote
Fence == "'''"

\* message_content of handle_user_input: the prompt, with the decoded
\* contents of the uploaded file after it if there is one
MessageContent(p, file) ==
    IF file = None THEN p
    ELSE p \o "\n\nFile contents:\n" \o Fence \o "\n" \o file \o "\n"
           \o Fence

\* mutant of SubmitWith: generate_stream is called before the user turn is
\* in the messages
SubmitWith_unappended(p, file, up) ==
    /\ pc = "idle"
    /\ turns < MaxTurns
    /\ Len(messages) < MaxHist
    /\ NewApi(up)
    /\ prompt' = MessageContent(p, file)
    /\ cache_key' = None
    /\ pc' = "created"
    /\ turns' = turns + 1
    /\ NoCall
    /\ UNCHANGED <<max_size, ttl, now, call, inserted, sess, redis_store>>
    /\ UNCHANGED <<messages, countVars, saved>>
    /\ UNCHANGED threadVars

\* a script run with a chat input and an uploaded file or none: main up to
\* handle_user_input's call of generate_stream(message_content)
SubmitWith(p, file, up) ==
    /\ pc = "idle"
    /\ turns < MaxTurns
    /\ Len(messages) < MaxHist
    /\ NewApi(up)
    /\ messages' = Append(messages, Message("user", MessageContent(p, file)))
    /\ prompt' = MessageContent(p, file)
    /\ cache_key' = None
    /\ pc' = "created"
    /\ turns' = turns + 1
    /\ NoCall
    /\ UNCHANGED <<max_size, ttl, now, call, inserted, sess, redis_store>>
    /\ UNCHANGED <<countVars, saved>>
    /\ UNCHANGED threadVars

\* a script run with a chat input and no uploaded file
Submit(p, up) == SubmitWith(p, None, up)

\* a script run after the max_tokens slider was moved: the run has no chat
\* input and ends
MoveSlider(v) ==
    /\ pc = "idle"
    /\ v # sess.max_tokens
    /\ NoApi
    /\ sess' = [sess EXCEPT !.max_tokens = v]
    /\ UNCHANGED <<max_size, ttl, now, inserted, redis_store>>
    /\ UNCHANGED <<messages, prompt, cache_key, pc>>
    /\ UNCHANGED <<countVars, genVars, runVars>>
    /\ UNCHANGED threadVars

\* the Clear Chat button: the messages are emptied and the script reruns,
\* without a chat input
ClearChat ==
    /\ pc = "idle"
    /\ messages # <<>>
    /\ NoApi
    /\ messages' = <<>>
    /\ UNCHANGED <<max_size, ttl, now, inserted, redis_store>>
    /\ UNCHANGED <<sess, prompt, cache_key, pc>>
    /\ UNCHANGED <<countVars, genVars, runVars>>
    /\ UNCHANGED threadVars

\* mutant of IsHit: whatever the cache returned, the call goes on
IsHit_never(response) == FALSE

\* if cached_response: neither None nor the empty text
IsHit(response) == response # None /\ response # ""

\* mutant of Lookup: a failure of Redis comes back as a text
Lookup_failure_text(k, ok) ==
    IF redis_client
    THEN IF ok THEN RedisGet(redis_store, k, now) ELSE "Error"
    ELSE GetRet(cache, k, now, ttl)

\* get_from_cache(cache_key): Redis if the probe answered, else the
\* SimpleCache; an exception of the backend is a miss
Lookup(k, ok) ==
    IF redis_client
    THEN IF ok THEN RedisGet(redis_store, k, now) ELSE None
    ELSE GetRet(cache, k, now, ttl)

\* generate_stream up to the cache lookup and, on a miss, requests.post
Start(ok) ==
    /\ pc = "created"
    /\ (~redis_client => ok)
    /\ LET params == _get_params(sess, TRUE)
           formatted_prompt == format_prompt(prompt, messages)
           k == _get_cache_key(prompt, params, messages)
           response == Lookup(k, ok)
       IN  /\ tokens_sent' = WordCount(formatted_prompt)
           /\ cache_key' = k
           /\ cached_response' = response
           /\ cache' = IF redis_client THEN cache ELSE GetCache(cache, k, now, ttl)
           /\ call' = CallRec(IF ~redis_client THEN "get"
                              ELSE IF ok THEN "redis_get" ELSE "redis_error",
                              k, 0, None, response, now,
                              IF redis_client THEN None
                              ELSE Expired(cache, k, now, ttl))
           /\ IF IsHit(response)
              THEN /\ pending' = response
                   /\ posts' = 0
                   /\ pc' = "replay"
              ELSE /\ pending' = ""
                   /\ posts' = 1
                   /\ pc' = "posting"
    /\ UNCHANGED <<max_size, ttl, now, inserted, messages, sess, prompt>>
    /\ UNCHANGED <<redisVars, countVars, runVars>>
    /\ UNCHANGED <<full_response, tokens_received, emitted, lines_read, chunks>>
    /\ UNCHANGED threadVars

\* for char in cached_response: yield char
ReplayChar ==
    /\ pc = "replay"
    /\ pending # ""
    /\ emitted' = Append(emitted, NextChar(pending))
    /\ pending' = RestChars(pending)
    /\ UNCHANGED <<cacheVars, keyVars, redisVars, countVars, runVars>>
    /\ UNCHANGED <<cached_response, tokens_sent, full_response,
                   tokens_received, lines_read, chunks, posts>>
    /\ UNCHANGED threadVars

\* the end of the replay: the counters, and return
ReplayEnd ==
    /\ pc = "replay"
    /\ pending = ""
    /\ total_tokens_sent' = total_tokens_sent + tokens_sent
    /\ total_tokens_received' = total_tokens_received + WordCount(cached_response)
    /\ pc' = "done"
    /\ UNCHANGED <<cacheVars, redisVars, genVars, runVars>>
    /\ UNCHANGED <<messages, sess, prompt, cache_key>>
    /\ UNCHANGED threadVars

\* requests.post and raise_for_status: the response, or a RequestException
PostResponds(ok) ==
    /\ pc = "posting"
    /\ IF ok
       THEN /\ full_response' = ""
            /\ tokens_received' = 0
            /\ pc' = "reading"
            /\ UNCHANGED emitted
       ELSE /\ emitted' = Append(emitted, ErrorFragment)
            /\ pc' = "failed"
            /\ UNCHANGED <<full_response, tokens_received>>
    /\ UNCHANGED <<cacheVars, redisVars, countVars, runVars>>
    /\ UNCHANGED <<messages, sess, prompt, cache_key>>
    /\ UNCHANGED <<cached_response, tokens_sent, pending, lines_read, chunks,
                   posts>>
    /\ UNCHANGED threadVars

\* one line of response.iter_lines() and the body of the loop up to its
\* first yield; an exception that no except clause names leaves the generator
ReadLine(line, limit) ==
    /\ pc = "reading"
    /\ lines_read < limit
    /\ lines_read' = lines_read + 1
    /\ LET e == LineEffect(line)
       IN  CASE e.kind = "generated_text" ->
                  /\ chunks' = Append(chunks, FirstOfList(line.body))
                  /\ full_response' = Accumulate(full_response, e.text)
                  /\ tokens_received' = tokens_received + WordCount(e.text)
                  /\ pending' = e.text
                  /\ pc' = IF e.text = "" THEN "reading" ELSE "chars"
                  /\ UNCHANGED emitted
             [] e.kind = "token" ->
                  /\ chunks' = Append(chunks, FirstOfList(line.body))
                  /\ full_response' = Accumulate(full_response, e.text)
                  /\ tokens_received' = tokens_received + 1
                  /\ emitted' = Append(emitted, e.text)
                  /\ UNCHANGED <<pending, pc>>
             [] e.kind = "raise" ->
                  /\ pc' = "raised"
                  /\ UNCHANGED <<full_response, tokens_received, pending,
                                 emitted, chunks>>
             [] OTHER ->
                  UNCHANGED <<full_response, tokens_received, pending, emitted,
                              chunks, pc>>
    /\ UNCHANGED <<cacheVars, redisVars, countVars, runVars>>
    /\ UNCHANGED <<messages, sess, prompt, cache_key>>
    /\ UNCHANGED <<cached_response, tokens_sent, posts>>
    /\ UNCHANGED threadVars

\* for char in text: yield char
YieldChar ==
    /\ pc = "chars"
    /\ emitted' = Append(emitted, NextChar(pending))
    /\ pending' = RestChars(pending)
    /\ pc' = IF Len(pending) = 1 THEN "reading" ELSE "chars"
    /\ UNCHANGED <<cacheVars, redisVars, countVars, runVars>>
    /\ UNCHANGED <<messages, sess, prompt, cache_key>>
    /\ UNCHANGED <<cached_response, tokens_sent, full_response,
                   tokens_received, lines_read, chunks, posts>>
    /\ UNCHANGED threadVars

\* mutant of StreamFails: the error fragment is yielded twice
StreamFails_twice ==
    /\ pc = "reading"
    /\ emitted' = emitted \o <<ErrorFragment, ErrorFragment>>
    /\ pc' = "failed"
    /\ UNCHANGED <<cacheVars, redisVars, countVars, runVars>>
    /\ UNCHANGED <<messages, sess, prompt, cache_key>>
    /\ UNCHANGED <<cached_response, tokens_sent, full_response,
                   tokens_received, pending, lines_read, chunks, posts>>
    /\ UNCHANGED threadVars

\* iter_lines raises a RequestException: the error fragment, nothing saved
StreamFails ==
    /\ pc = "reading"
    /\ emitted' = Append(emitted, ErrorFragment)
    /\ pc' = "failed"
    /\ UNCHANGED <<cacheVars, redisVars, countVars, runVars>>
    /\ UNCHANGED <<messages, sess, prompt, cache_key>>
    /\ UNCHANGED <<cached_response, tokens_sent, full_response,
                   tokens_received, pending, lines_read, chunks, posts>>
    /\ UNCHANGED threadVars

\* what save_to_cache(cache_key, full_response) leaves behind; the
\* expire_time is CACHE_TTL, and an exception of the backend is logged
Saved(ok) ==
    IF (IF redis_client THEN ok ELSE ~SetexRaises(cache, max_size))
    THEN [key |-> cache_key, text |-> full_response, at |-> now, turn |-> turns,
          store |-> IF redis_client THEN "redis" ELSE "simple"]
    ELSE saved

\* the stream is exhausted: the counters and the cache, if any text came
StreamEnds(ok) ==
    /\ pc = "reading"
    /\ ((~redis_client \/ full_response = "") => ok)
    /\ pc' = "done"
    /\ IF full_response # ""
       THEN /\ total_tokens_sent' = total_tokens_sent + tokens_sent
            /\ total_tokens_received' = total_tokens_received + tokens_received
            /\ saved' = Saved(ok)
            /\ IF redis_client
               THEN /\ redis_store' =
                         IF ok
                         THEN RedisSetex(redis_store, cache_key, ttl,
                                         full_response, now)
                         ELSE redis_store
                    /\ call' = CallRec(IF ok THEN "redis_setex" ELSE "redis_error",
                                       cache_key, ttl, full_response, None,
                                       now, None)
                    /\ UNCHANGED cache
               ELSE /\ cache' = SetexCache(cache, max_size, cache_key, ttl,
                                           full_response, now)
                    /\ call' = CallRec("setex", cache_key, ttl, full_response,
                                       IF SetexRaises(cache, max_size)
                                       THEN "ValueError" ELSE None,
                                       now, Evicted(cache, max_size))
                    /\ UNCHANGED redis_store
       ELSE UNCHANGED <<countVars, saved, redis_store, call, cache>>
    /\ UNCHANGED <<max_size, ttl, now, inserted, redis_client, turns>>
    /\ UNCHANGED <<messages, sess, prompt, cache_key, genVars>>
    /\ UNCHANGED threadVars

\* mutant of Abandon: the text accumulated so far is saved on the way out
Abandon_saves ==
    /\ pc \in {"replay", "chars", "reading"}
    /\ emitted # <<>>
    /\ pc' = "abandoned"
    /\ cache' = IF redis_client THEN cache
                ELSE SetexCache(cache, max_size, cache_key, ttl, full_response, now)
    /\ redis_store' =
          IF redis_client
          THEN RedisSetex(redis_store, cache_key, ttl, full_response, now)
          ELSE redis_store
    /\ cached_response' = None /\ tokens_sent' = 0
    /\ full_response' = "" /\ tokens_received' = 0 /\ pending' = ""
    /\ UNCHANGED <<emitted, lines_read, chunks, posts>>
    /\ UNCHANGED <<max_size, ttl, now, call, inserted, redis_client>>
    /\ UNCHANGED <<messages, sess, prompt, cache_key, countVars, runVars>>
    /\ UNCHANGED threadVars

\* mutant of Abandon: the counters are updated on the way out
Abandon_counts ==
    /\ pc \in {"replay", "chars", "reading"}
    /\ emitted # <<>>
    /\ pc' = "abandoned"
    /\ total_tokens_sent' = total_tokens_sent + tokens_sent
    /\ total_tokens_received' = total_tokens_received + tokens_received
    /\ cached_response' = None /\ tokens_sent' = 0
    /\ full_response' = "" /\ tokens_received' = 0 /\ pending' = ""
    /\ UNCHANGED <<emitted, lines_read, chunks, posts>>
    /\ UNCHANGED <<cacheVars, redisVars, runVars>>
    /\ UNCHANGED <<messages, sess, prompt, cache_key>>
    /\ UNCHANGED threadVars

\* the caller closes the generator at a yield: GeneratorExit is no
\* RequestException, the frame and its locals are dropped
Abandon ==
    /\ pc \in {"replay", "chars", "reading"}
    /\ emitted # <<>>
    /\ pc' = "abandoned"
    /\ cached_response' = None /\ tokens_sent' = 0
    /\ full_response' = "" /\ tokens_received' = 0 /\ pending' = ""
    /\ UNCHANGED <<emitted, lines_read, chunks, posts>>
    /\ UNCHANGED <<cacheVars, redisVars, countVars, runVars>>
    /\ UNCHANGED <<messages, sess, prompt, cache_key>>
    /\ UNCHANGED threadVars

\* handle_user_input after the loop: a response with text is appended and
\* the script reruns; else the fallback message, or main's st.error; then
\* the run ends
Finish ==
    /\ pc \in {"done", "failed", "raised"}
    /\ LET text == Concat(emitted)
       IN  IF pc \in {"done", "failed"} /\ HasText(text)
           THEN messages' = Append(messages,
                    Message("assistant", format_code_in_message(text)))
           ELSE UNCHANGED messages
    /\ NoApi
    /\ pc' = "idle"
    /\ prompt' = None
    /\ cache_key' = None
    /\ NoCall
    /\ UNCHANGED <<max_size, ttl, now, inserted, sess, redis_store>>
    /\ UNCHANGED <<countVars, runVars>>
    /\ UNCHANGED threadVars

Next ==
    \/ \E p \in ChatInputs, up \in BOOLEAN : Submit(p, up)
    \/ \E ss \in SessInputs : MoveSlider(ss.max_tokens)
    \/ ClearChat
    \/ \E ok \in BOOLEAN : Start(ok)
    \/ ReplayChar
    \/ ReplayEnd
    \/ \E ok \in BOOLEAN : PostResponds(ok)
    \/ \E line \in ChatLines : ReadLine(line, MaxChatLines)
    \/ YieldChar
    \/ StreamFails
    \/ \E ok \in BOOLEAN : StreamEnds(ok)
    \/ Finish
    \/ Tick

Spec == Init /\ [][Next]_vars

\* ------------------------------------------- the chat, later in a session
\* the messages n steps into a conversation: the user turns and the
\* assistant turns, each with a content of its own; an odd n ends with a
\* user turn that got no answer
PriorHistory(n) ==
    [i \in 1..n |-> IF i % 2 = 1 THEN Message("user", "q" \o IntStr(i))
                    ELSE Message("assistant", "r" \o IntStr(i))]

\* a new session, and the sessions whose next user turn is the ninth to
\* the twelfth message or later: the window not yet full, just full, and
\* with older turns outside it
PriorHistories ==
    {PriorHistory(n) : n \in {0} \cup (WindowSize - 2)..(MaxHist - 1)}

\* the decoded contents of the uploaded file, None for no file
Files == {None, "x"}

\* a session with the messages of earlier script runs
ChatInit ==
    /\ max_size = MaxCap
    /\ ttl = 1
    /\ cache = <<>> /\ now = 0
    /\ call = CallRec("init", None, 0, None, None, 0, None)
    /\ inserted = <<>>
    /\ messages \in PriorHistories
    /\ sess = DefaultSess
    /\ prompt = None /\ cache_key = None
    /\ pc = "idle"
    /\ NoCallInProgress
    /\ redis_client = FALSE /\ redis_store = {}
    /\ total_tokens_sent = 0 /\ total_tokens_received = 0
    /\ turns = 0 /\ saved = NoSave
    /\ NoThreads

ChatNext ==
    \/ \E p \in ChatInputs, file \in Files, up \in BOOLEAN :
          SubmitWith(p, file, up)
    \/ ClearChat
    \/ \E ok \in BOOLEAN : Start(ok)
    \/ ReplayChar
    \/ ReplayEnd
    \/ \E ok \in BOOLEAN : PostResponds(ok)
    \/ \E line \in ChatLines : ReadLine(line, MaxChatLines - 1)
    \/ YieldChar
    \/ StreamFails
    \/ \E ok \in BOOLEAN : StreamEnds(ok)
    \/ Finish

SpecChat == ChatInit /\ [][ChatNext]_vars

\* ------------------------------------------- generate_stream, one call
\* what Redis may hold from an earlier process: a text under the key of the
\* first input, not yet expired
StoredBefore ==
    {[key |-> _get_cache_key("Hello", _get_params(DefaultSess, TRUE),
                             <<Message("user", "Hello")>>),
      value |-> "Hey", expire_at |-> MaxTime + 1]}

\* handle_user_input has appended the first input and calls generate_stream
StreamInit ==
    /\ max_size \in {0, MaxCap}
    /\ ttl \in Ttls
    /\ cache = <<>> /\ now = 0
    /\ call = CallRec("init", None, 0, None, None, 0, None)
    /\ inserted = <<>>
    /\ messages = <<Message("user", "Hello")>> /\ sess = DefaultSess
    /\ prompt = "Hello" /\ cache_key = None
    /\ pc = "created"
    /\ NoCallInProgress
    /\ redis_client \in BOOLEAN
    /\ redis_store \in (IF redis_client THEN {{}, StoredBefore} ELSE {{}})
    /\ total_tokens_sent = 0 /\ total_tokens_received = 0
    /\ turns = 1 /\ saved = NoSave
    /\ NoThreads

StreamNext ==
    \/ \E ok \in BOOLEAN : Start(ok)
    \/ \E ok \in BOOLEAN : PostResponds(ok)
    \/ \E line \in Lines : ReadLine(line, MaxLines)
    \/ YieldChar
    \/ StreamFails
    \/ \E ok \in BOOLEAN : StreamEnds(ok)
    \/ ReplayChar
    \/ ReplayEnd
    \/ Abandon

SpecStream == StreamInit /\ [][StreamNext]_vars

\* ------------------------------------------- generate_stream, call after call
\* the caller, the earlier generator being over, calls generate_stream of
\* the same object again: same prompt, session and messages
CallAgain ==
    /\ pc \in {"done", "failed", "raised", "abandoned"}
    /\ turns < MaxTurns
    /\ turns' = turns + 1
    /\ pc' = "created"
    /\ cache_key' = None
    /\ NoCall
    /\ UNCHANGED <<cacheVars, redisVars, countVars, saved, threadVars>>
    /\ UNCHANGED <<messages, sess, prompt>>

CallsNext == StreamNext \/ CallAgain

SpecCalls == StreamInit /\ [][CallsNext]_vars

\* --------------------------------------------------- one call of either entry
\* cache_key of generate: _get_params() as it is, no "stream" entry
GenerateKey(p, ss, h) == _get_cache_key(p, _get_params(ss, FALSE), h)

\* what Redis may hold from an earlier process under the key of generate
StoredBeforeGenerate ==
    {[key |-> GenerateKey("Hello", DefaultSess, <<Message("user", "Hello")>>),
      value |-> "Hey", expire_at |-> MaxTime + 1]}

\* requests.post, raise_for_status or response.json() raises
RequestFailure == [t |-> "failure"]

\* what the remote endpoint answers to generate
GenResults ==
    {RequestFailure, NotJson, JNull, JStr("x"), JList(<<>>),
     JDict([error |-> JStr("x")]),
     JDict([generated_text |-> JNull]),
     JDict([generated_text |-> JStr("")]),
     JDict([generated_text |-> JStr("a b")]),
     JList(<<JDict([generated_text |-> JStr("Hi")])>>)}

\* result.get("generated_text") of the first element or of the document;
\* None for a document that is no dict
GeneratedText(result) ==
    LET r == FirstOfList(result)
    IN  IF r.t = "dict" /\ "generated_text" \in DOMAIN r.fields
           /\ r.fields.generated_text.t = "str"
        THEN r.fields.generated_text.s
        ELSE None

\* generate up to the cache lookup and, on a miss, requests.post; a hit is
\* returned
GenStart(ok) ==
    /\ pc = "created"
    /\ (~redis_client => ok)
    /\ LET k == GenerateKey(prompt, sess, messages)
           response == Lookup(k, ok)
       IN  /\ cache_key' = k
           /\ cached_response' = response
           /\ cache' = IF redis_client THEN cache ELSE GetCache(cache, k, now, ttl)
           /\ call' = CallRec(IF ~redis_client THEN "get"
                              ELSE IF ok THEN "redis_get" ELSE "redis_error",
                              k, 0, None, response, now,
                              IF redis_client THEN None
                              ELSE Expired(cache, k, now, ttl))
           /\ IF IsHit(response)
              THEN /\ emitted' = <<response>>
                   /\ posts' = 0
                   /\ pc' = "returned"
              ELSE /\ UNCHANGED emitted
                   /\ posts' = 1
                   /\ pc' = "gen_posting"
    /\ UNCHANGED <<max_size, ttl, now, inserted, messages, sess, prompt>>
    /\ UNCHANGED <<redisVars, countVars, runVars, threadVars>>
    /\ UNCHANGED <<tokens_sent, full_response, tokens_received, pending,
                   lines_read, chunks>>

\* generate after requests.post: a RequestException returns None; a
\* document that is no JSON raises in response.json(), a RequestException
\* or not by the release of requests; a generated_text that is not empty is
\* saved and returned
GenResponds(result, ok, caught) ==
    /\ pc = "gen_posting"
    /\ (result # NotJson => caught)
    /\ LET failed == result \in {RequestFailure, NotJson}
           generated_text == IF failed THEN None ELSE GeneratedText(result)
           saves == IsHit(generated_text)
           stored == IF redis_client THEN ok ELSE ~SetexRaises(cache, max_size)
       IN  /\ ((~redis_client \/ ~saves) => ok)
           /\ full_response' = IF generated_text = None THEN "" ELSE generated_text
           /\ IF result = NotJson /\ ~caught
              THEN /\ pc' = "raised"
                   /\ UNCHANGED emitted
              ELSE /\ pc' = "returned"
                   /\ emitted' = <<generated_text>>
           /\ IF saves
              THEN /\ saved' = IF stored
                               THEN [key |-> cache_key, text |-> generated_text,
                                     at |-> now, turn |-> turns,
                                     store |-> IF redis_client THEN "redis"
                                               ELSE "simple"]
                               ELSE saved
                   /\ IF redis_client
                      THEN /\ redis_store' =
                                IF ok
                                THEN RedisSetex(redis_store, cache_key, ttl,
                                                generated_text, now)
                                ELSE redis_store
                           /\ call' = CallRec(IF ok THEN "redis_setex"
                                              ELSE "redis_error",
                                              cache_key, ttl, generated_text,
                                              None, now, None)
                           /\ UNCHANGED cache
                      ELSE /\ cache' = SetexCache(cache, max_size, cache_key,
                                                  ttl, generated_text, now)
                           /\ call' = CallRec("setex", cache_key, ttl,
                                              generated_text,
                                              IF SetexRaises(cache, max_size)
                                              THEN "ValueError" ELSE None,
                                              now, Evicted(cache, max_size))
                           /\ UNCHANGED redis_store
              ELSE UNCHANGED <<saved, redis_store, call, cache>>
    /\ UNCHANGED <<max_size, ttl, now, inserted, redis_client, turns>>
    /\ UNCHANGED <<messages, sess, prompt, cache_key>>
    /\ UNCHANGED <<countVars, threadVars>>
    /\ UNCHANGED <<cached_response, tokens_sent, tokens_received, pending,
                   lines_read, chunks, posts>>

\* the caller holds a new HuggingFaceAPI and calls one of its two entries
CallInit ==
    /\ max_size \in {0, MaxCap}
    /\ ttl \in Ttls
    /\ cache = <<>> /\ now = 0
    /\ call = CallRec("init", None, 0, None, None, 0, None)
    /\ inserted = <<>>
    /\ messages = <<Message("user", "Hello")>> /\ sess = DefaultSess
    /\ prompt = "Hello" /\ cache_key = None
    /\ pc = "created"
    /\ NoCallInProgress
    /\ redis_client \in BOOLEAN
    /\ redis_store \in (IF redis_client
                        THEN {{}, StoredBefore, StoredBeforeGenerate}
                        ELSE {{}})
    /\ total_tokens_sent = 0 /\ total_tokens_received = 0
    /\ turns = 1 /\ saved = NoSave
    /\ NoThreads

CallNext ==
    \/ StreamNext
    \/ \E ok \in BOOLEAN : GenStart(ok)
    \/ \E result \in GenResults, ok \in BOOLEAN, caught \in BOOLEAN :
          GenResponds(result, ok, caught)

SpecCall == CallInit /\ [][CallNext]_vars

\* ------------------------------------------- SimpleCache, several threads
ThreadInit ==
    /\ max_size \in 0..MaxCap
    /\ ttl = MaxTtl
    /\ cache = <<>> /\ now = 0
    /\ call = CallRec("init", None, 0, None, None, 0, None)
    /\ inserted = <<>>
    /\ messages = <<>> /\ sess = DefaultSess
    /\ prompt = None /\ cache_key = None
    /\ pc = "idle"
    /\ NoCallInProgress
    /\ redis_client = FALSE /\ redis_store = {}
    /\ total_tokens_sent = 0 /\ total_tokens_received = 0
    /\ turns = 0 /\ saved = NoSave
    /\ NoThreads

\* all but the dict, the lock and the threads
ThreadFrame ==
    /\ UNCHANGED <<max_size, ttl, now, call, inserted>>
    /\ UNCHANGED <<keyVars, redisVars, countVars, genVars, runVars>>

\* mutant of CanAcquire: the lock is not looked at
CanAcquire_always(l) == TRUE

\* threading.Lock.acquire returns only while the lock is free
CanAcquire(l) == l = 0

\* with self._lock: thread t enters get, setex or clear
Acquire(t, op, k, v) ==
    /\ threads[t].pc = "out"
    /\ CanAcquire(lock)
    /\ lock' = t
    /\ threads' = [threads EXCEPT ![t] =
                      [pc |-> "in", op |-> op, key |-> k, value |-> v,
                       evicted |-> None]]
    /\ UNCHANGED cache
    /\ ThreadFrame

\* the body of get, up to its return
GetLocked(t) ==
    /\ threads[t].pc = "in" /\ threads[t].op = "get"
    /\ cache' = GetCache(cache, threads[t].key, now, ttl)
    /\ threads' = [threads EXCEPT ![t].pc = "leaving",
                                  ![t].value = GetRet(cache, threads[t].key, now, ttl)]
    /\ UNCHANGED lock
    /\ ThreadFrame

\* setex: if len(self.cache) >= self.max_size, the oldest key is deleted;
\* min() of an empty dict raises and the with statement releases the lock
SetexMakeRoom(t) ==
    /\ threads[t].pc = "in" /\ threads[t].op = "setex"
    /\ IF SetexRaises(cache, max_size)
       THEN /\ threads' = [threads EXCEPT ![t] = Out]
            /\ lock' = 0
            /\ UNCHANGED cache
       ELSE /\ cache' = IF Len(cache) >= max_size
                        THEN DictDel(cache, OldestKey(cache)) ELSE cache
            /\ threads' = [threads EXCEPT ![t].pc = "room",
                                          ![t].evicted = Evicted(cache, max_size)]
            /\ UNCHANGED lock
    /\ ThreadFrame

\* setex: self.cache[key] = (value, time.time())
SetexStore(t) ==
    /\ threads[t].pc = "room"
    /\ cache' = DictSet(cache, threads[t].key, threads[t].value, now)
    /\ threads' = [threads EXCEPT ![t].pc = "leaving"]
    /\ UNCHANGED lock
    /\ ThreadFrame

\* the body of clear
ClearLocked(t) ==
    /\ threads[t].pc = "in" /\ threads[t].op = "clear"
    /\ cache' = <<>>
    /\ threads' = [threads EXCEPT ![t].pc = "leaving"]
    /\ UNCHANGED lock
    /\ ThreadFrame

\* the end of the with statement
Release(t) ==
    /\ threads[t].pc = "leaving"
    /\ lock' = 0
    /\ threads' = [threads EXCEPT ![t] = Out]
    /\ UNCHANGED cache
    /\ ThreadFrame

ThreadNext ==
    \E t \in Threads :
        \/ \E k \in Keys : Acquire(t, "get", k, None)
        \/ \E k \in Keys : Acquire(t, "setex", k, "v")
        \/ Acquire(t, "clear", None, None)
        \/ GetLocked(t)
        \/ SetexMakeRoom(t)
        \/ SetexStore(t)
        \/ ClearLocked(t)
        \/ Release(t)

SpecThreads == ThreadInit /\ [][ThreadNext]_vars

\* ------------------------------- generate_stream, requests side by side
\* the lines the remote endpoint streams to request t
ReqStream(t) ==
    IF t % 2 = 1
    THEN <<DataLine(TRUE, JDict([generated_text |-> JStr("Hi")])),
           DataLine(TRUE, JDict([token |-> JDict([text |-> JStr(" ")])]))>>
    ELSE <<DataLine(TRUE, JDict([token |-> JDict([text |-> JStr(" ")])])),
           DataLine(TRUE, NotJson),
           DataLine(FALSE, JList(<<JDict([generated_text |-> JStr("Hi")])>>))>>

\* the messages of the session of a request: its prompt, just appended
ReqMessages(p) == <<Message("user", p)>>

\* a request that handle_user_input is about to hand to generate_stream:
\* the locals of the generator and the counters of its session
NewRequest(p) ==
    [pc |-> "created", prompt |-> p, cache_key |-> None,
     cached_response |-> None, tokens_sent |-> 0, full_response |-> "",
     tokens_received |-> 0, pending |-> "", lines_read |-> 0, posts |-> 0,
     fragments |-> 0, total_tokens_sent |-> 0, total_tokens_received |-> 0]

\* the generator of a request is over without completing: its locals are gone
Dropped(f, how) ==
    [f EXCEPT !.pc = how, !.cached_response = None, !.tokens_sent = 0,
              !.full_response = "", !.tokens_received = 0, !.pending = ""]

\* one process, one HuggingFaceAPI object, several requests: all with one
\* prompt, or the first with a prompt of its own
RequestsInit ==
    /\ redis_client \in BOOLEAN
    /\ max_size \in (IF redis_client THEN {MaxCap} ELSE {1, MaxCap})
    /\ ttl = MaxTtl
    /\ cache = <<>> /\ now = 0
    /\ call = CallRec("init", None, 0, None, None, 0, None)
    /\ inserted = <<>>
    /\ messages = <<>> /\ sess = DefaultSess
    /\ prompt = None /\ cache_key = None
    /\ pc = "idle"
    /\ NoCallInProgress
    /\ redis_store = {}
    /\ total_tokens_sent = 0 /\ total_tokens_received = 0
    /\ turns = 0 /\ saved = NoSave
    /\ lock = 0
    /\ \E same \in BOOLEAN :
          threads = [t \in Threads |->
                        NewRequest(IF same \/ t > 1 THEN "Hello" ELSE "Hello:[]")]

\* all but the stores, the records of the last cache operation and of the
\* last save, and the requests
RequestsFrame ==
    /\ UNCHANGED <<max_size, ttl, now, inserted, redis_client, lock>>
    /\ UNCHANGED <<keyVars, countVars, genVars, turns>>

\* mutant of ReqText: the accumulators of all requests, one after another
ReqText_mixed(f) ==
    Concat([t \in Threads |-> threads[t].full_response])

\* the text a request hands to save_to_cache: its own full_response
ReqText(f) == f.full_response

\* generate_stream of request t up to the cache lookup and, on a miss,
\* requests.post; the lookup runs inside the lock of the SimpleCache, or is
\* one GET of Redis
ReqStart(t, ok) ==
    /\ threads[t].pc = "created"
    /\ (~redis_client => ok)
    /\ LET f == threads[t]
           k == _get_cache_key(f.prompt, _get_params(sess, TRUE),
                               ReqMessages(f.prompt))
           response == Lookup(k, ok)
       IN  /\ cache' = IF redis_client THEN cache ELSE GetCache(cache, k, now, ttl)
           /\ call' = CallRec(IF ~redis_client THEN "get"
                              ELSE IF ok THEN "redis_get" ELSE "redis_error",
                              k, 0, None, response, now,
                              IF redis_client THEN None
                              ELSE Expired(cache, k, now, ttl))
           /\ threads' = [threads EXCEPT ![t] =
                 [f EXCEPT
                    !.tokens_sent =
                        WordCount(format_prompt(f.prompt, ReqMessages(f.prompt))),
                    !.cache_key = k,
                    !.cached_response = response,
                    !.pending = IF IsHit(response) THEN response ELSE "",
                    !.posts = IF IsHit(response) THEN 0 ELSE 1,
                    !.pc = IF IsHit(response) THEN "replay" ELSE "posting"]]
    /\ UNCHANGED <<redis_store, saved>>
    /\ RequestsFrame

\* for char in cached_response: yield char
ReqReplayChar(t) ==
    /\ threads[t].pc = "replay"
    /\ threads[t].pending # ""
    /\ threads' = [threads EXCEPT
                      ![t].pending = RestChars(threads[t].pending),
                      ![t].fragments = threads[t].fragments + 1]
    /\ UNCHANGED <<cache, redis_store, call, saved>>
    /\ RequestsFrame

\* the end of the replay: the counters of the session, and return
ReqReplayEnd(t) ==
    /\ threads[t].pc = "replay"
    /\ threads[t].pending = ""
    /\ LET f == threads[t]
       IN  threads' = [threads EXCEPT ![t] =
              [f EXCEPT
                 !.total_tokens_sent = f.total_tokens_sent + f.tokens_sent,
                 !.total_tokens_received =
                     f.total_tokens_received + WordCount(f.cached_response),
                 !.pc = "done"]]
    /\ UNCHANGED <<cache, redis_store, call, saved>>
    /\ RequestsFrame

\* requests.post and raise_for_status: the response, or a RequestException,
\* whose error fragment ends the generator
ReqPost(t, ok) ==
    /\ threads[t].pc = "posting"
    /\ threads' = [threads EXCEPT ![t] =
          IF ok
          THEN [threads[t] EXCEPT !.full_response = "", !.tokens_received = 0,
                                  !.pc = "reading"]
          ELSE Dropped([threads[t] EXCEPT !.fragments = threads[t].fragments + 1],
                       "failed")]
    /\ UNCHANGED <<cache, redis_store, call, saved>>
    /\ RequestsFrame

\* the next line of the stream of request t and the body of the loop up to
\* its first yield
ReqRead(t) ==
    /\ threads[t].pc = "reading"
    /\ threads[t].lines_read < Len(ReqStream(t))
    /\ LET f == [threads[t] EXCEPT !.lines_read = threads[t].lines_read + 1]
           e == LineEffect(ReqStream(t)[f.lines_read])
       IN  threads' = [threads EXCEPT ![t] =
              CASE e.kind = "generated_text" ->
                     [f EXCEPT
                        !.full_response = Accumulate(f.full_response, e.text),
                        !.tokens_received = f.tokens_received + WordCount(e.text),
                        !.pending = e.text,
                        !.pc = IF e.text = "" THEN "reading" ELSE "chars"]
                [] e.kind = "token" ->
                     [f EXCEPT
                        !.full_response = Accumulate(f.full_response, e.text),
                        !.tokens_received = f.tokens_received + 1,
                        !.fragments = f.fragments + 1]
                [] e.kind = "raise" -> Dropped(f, "raised")
                [] OTHER -> f]
    /\ UNCHANGED <<cache, redis_store, call, saved>>
    /\ RequestsFrame

\* for char in text: yield char
ReqYieldChar(t) ==
    /\ threads[t].pc = "chars"
    /\ threads' = [threads EXCEPT
                      ![t].pending = RestChars(threads[t].pending),
                      ![t].fragments = threads[t].fragments + 1,
                      ![t].pc = IF Len(threads[t].pending) = 1 THEN "reading"
                                ELSE "chars"]
    /\ UNCHANGED <<cache, redis_store, call, saved>>
    /\ RequestsFrame

\* iter_lines raises a RequestException: the error fragment, nothing saved
ReqFails(t) ==
    /\ threads[t].pc = "reading"
    /\ threads' = [threads EXCEPT ![t] =
          Dropped([threads[t] EXCEPT !.fragments = threads[t].fragments + 1],
                  "failed")]
    /\ UNCHANGED <<cache, redis_store, call, saved>>
    /\ RequestsFrame

\* the caller closes the generator of request t at a yield
ReqAbandon(t) ==
    /\ threads[t].pc \in {"replay", "chars", "reading"}
    /\ threads[t].fragments > 0
    /\ threads' = [threads EXCEPT ![t] = Dropped(threads[t], "abandoned")]
    /\ UNCHANGED <<cache, redis_store, call, saved>>
    /\ RequestsFrame

\* the stream of request t is exhausted: the counters of its session and,
\* if any text came, save_to_cache; the write runs inside the lock of the
\* SimpleCache, or is one SETEX of Redis
ReqEnds(t, ok) ==
    /\ threads[t].pc = "reading"
    /\ threads[t].lines_read = Len(ReqStream(t))
    /\ ((~redis_client \/ threads[t].full_response = "") => ok)
    /\ LET f == threads[t]
           text == ReqText(f)
       IN  IF f.full_response # ""
           THEN /\ saved' =
                      IF (IF redis_client THEN ok
                          ELSE ~SetexRaises(cache, max_size))
                      THEN [key |-> f.cache_key, text |-> text, at |-> now,
                            turn |-> turns,
                            store |-> IF redis_client THEN "redis" ELSE "simple"]
                      ELSE saved
                /\ threads' = [threads EXCEPT ![t] =
                      [f EXCEPT
                         !.total_tokens_sent = f.total_tokens_sent + f.tokens_sent,
                         !.total_tokens_received =
                             f.total_tokens_received + f.tokens_received,
                         !.pc = "done"]]
                /\ IF redis_client
                   THEN /\ redis_store' =
                             IF ok
                             THEN RedisSetex(redis_store, f.cache_key, ttl, text,
                                             now)
                             ELSE redis_store
                        /\ call' = CallRec(IF ok THEN "redis_setex"
                                           ELSE "redis_error",
                                           f.cache_key, ttl, text, None, now,
                                           None)
                        /\ UNCHANGED cache
                   ELSE /\ cache' = SetexCache(cache, max_size, f.cache_key, ttl,
                                               text, now)
                        /\ call' = CallRec("setex", f.cache_key, ttl, text,
                                           IF SetexRaises(cache, max_size)
                                           THEN "ValueError" ELSE None,
                                           now, Evicted(cache, max_size))
                        /\ UNCHANGED redis_store
           ELSE /\ threads' = [threads EXCEPT ![t].pc = "done"]
                /\ UNCHANGED <<cache, redis_store, call, saved>>
    /\ RequestsFrame

RequestsNext ==
    \E t \in Threads :
        \/ \E ok \in BOOLEAN : ReqStart(t, ok)
        \/ ReqReplayChar(t)
        \/ ReqReplayEnd(t)
        \/ \E ok \in BOOLEAN : ReqPost(t, ok)
        \/ ReqRead(t)
        \/ ReqYieldChar(t)
        \/ ReqFails(t)
        \/ ReqAbandon(t)
        \/ \E ok \in BOOLEAN : ReqEnds(t, ok)

SpecRequests == RequestsInit /\ [][RequestsNext]_vars

\* --------------------------------------------------------- claims, cache
\* no entry set since construction has reached the default TTL
NoExpiry == \A i \in 1..Len(inserted) : now - inserted[i][3] < ttl

\* C1: starting from an empty cache of capacity C >= 1, after setex on C+1
\* pairwise distinct keys and nothing else, with no entry expired, the dict
\* holds exactly C entries, get of the first key returns None and get of
\* each other key returns the value it was set to.
C1_CapacityEvictsFirst ==
    (max_size >= 1 /\ Len(inserted) = max_size + 1 /\ NoExpiry) =>
        /\ Len(cache) = max_size
        /\ GetRet(cache, inserted[1][1], now, ttl) = None
        /\ \A i \in 2..Len(inserted) :
              GetRet(cache, inserted[i][1], now, ttl) = inserted[i][2]

\* the cache of the largest capacity has been overfilled by one key
C1_Witness ==
    /\ max_size = MaxCap /\ MaxCap >= 2
    /\ Len(inserted) = max_size + 1 /\ NoExpiry
    /\ Len(cache) = max_size

\* C2 (as claimed): a value stored by setex(k, t, v) is returned by get(k)
\* at the time of the call, and get(k) returns None once more than t time
\* units have passed since the call, for every per-call t.
C2_PerCallTtlHonoured ==
    (call.op = "setex" /\ call.ret = None /\ ttl > 0) =>
        /\ (now = call.at => GetRet(cache, call.key, now, ttl) = call.value)
        /\ (now - call.at > call.expire_time =>
               GetRet(cache, call.key, now, ttl) = None)

\* C3: with capacity >= 1 and default TTL > 0, from every state, setex(k, t,
\* v) followed by get(k) at the same time returns v.
C3_SetexThenGet ==
    (call.op = "setex" /\ call.at = now /\ max_size >= 1 /\ ttl > 0) =>
        GetRet(cache, call.key, now, ttl) = call.value

\* setex has just replaced, in a full cache, the value of a key that was
\* stored and was not the oldest one
C3_Witness ==
    /\ call.op = "setex" /\ call.at = now /\ ttl > 0
    /\ max_size >= 2 /\ Len(cache) = max_size - 1
    /\ call.evicted # None /\ call.evicted # call.key
    /\ GetRet(cache, call.key, now, ttl) = call.value

\* the entries d holds under key k (one at most), and the other entries in
\* their order
Stored(d, k) == {d[i] : i \in {j \in 1..Len(d) : d[j].key = k}}

Others(d, k) == SelectSeq(d, LAMBDA e : e.key # k)

\* C22: get(k) returns the stored value exactly when k is present and
\* now - insertedAt < T (at age T the entry is no longer returned); get of a
\* present but expired key removes that entry and returns None; get never
\* adds, removes or changes the entry of another key.
C22_GetHitsBelowTtl ==
    [][\A k \in Keys :
          MemoryCache_get(k) =>
              LET live == {e \in Stored(cache, k) : now - e.timestamp < ttl}
              IN  /\ live # {} =>
                        /\ \E e \in live : call'.ret = e.value
                        /\ cache' = cache
                  /\ live = {} =>
                        /\ call'.ret = None
                        /\ Stored(cache', k) = {}
                  /\ Others(cache', k) = Others(cache, k)]_vars

\* get has just removed an entry at age exactly the TTL, another entry
\* staying stored
C22_Witness ==
    /\ call.op = "get" /\ call.ret = None
    /\ call.evicted = call.key
    /\ call.at = ttl /\ now = call.at
    /\ cache # <<>>

\* C23: a get that hits changes no insertion time, so the entry the next
\* setex at capacity evicts is the same with or without the get.
C23_GetHitKeepsEvictionOrder ==
    [][\A k \in Keys :
          (MemoryCache_get(k) /\ call'.ret # None) =>
              /\ Len(cache') = Len(cache)
              /\ \A i \in 1..Len(cache) :
                    /\ cache'[i].key = cache[i].key
                    /\ cache'[i].timestamp = cache[i].timestamp
              /\ Evicted(cache', max_size) = Evicted(cache, max_size)
              /\ \A k2 \in Keys, v \in Values :
                    SetexCache(cache', max_size, k2, 1, v, now)
                       = SetexCache(cache, max_size, k2, 1, v, now)]_vars

\* get has just hit the oldest entry of a full cache, later than the entry
\* was set and later than a younger entry was set
C23_Witness ==
    /\ call.op = "get" /\ call.ret # None /\ call.at = now
    /\ max_size >= 2 /\ Len(cache) = max_size
    /\ cache[1].key = call.key
    /\ cache[1].timestamp < cache[2].timestamp
    /\ Evicted(cache, max_size) = call.key

\* C24 (as claimed): setex on a key that is stored replaces the value and
\* the insertion time of that key and leaves every other entry in place,
\* also when the cache is at capacity.
C24_ResetKeepsOtherEntries ==
    [][\A k \in Keys, e \in ExpireTimes, v \in Values :
          (MemoryCache_setex(k, e, v) /\ Stored(cache, k) # {}) =>
              /\ Stored(cache', k) = {Entry(k, v, now)}
              /\ Others(cache', k) = Others(cache, k)]_vars

\* the entries a setex of key k removed from d to make room
Gone(d, after, k, evicted) ==
    {d[i] : i \in {j \in 1..Len(d) :
                     \/ d[j].key = evicted
                     \/ (d[j].key # k /\ Stored(after, d[j].key) = {})}}

\* C25: the clock never going back, the entry a setex evicts at capacity
\* has the smallest insertion time and, the TTL being the same for all, is
\* expired whenever a stored entry is expired: no unexpired entry is evicted
\* while an expired one is stored.
C25_EvictionTakesExpiredFirst ==
    [][\A k \in Keys, e \in ExpireTimes, v \in Values :
          MemoryCache_setex(k, e, v) =>
              /\ now' >= now
              /\ \A x \in Gone(cache, cache', k, call'.evicted) :
                    \A i \in 1..Len(cache) :
                       /\ x.timestamp <= cache[i].timestamp
                       /\ now - cache[i].timestamp >= ttl =>
                             now - x.timestamp >= ttl]_vars

\* setex has just evicted an expired entry while an unexpired one stays
C25_Witness ==
    /\ call.op = "setex" /\ call.evicted # None /\ call.at = now
    /\ Len(inserted) = max_size + 1
    /\ inserted[1][1] = call.evicted
    /\ call.at - inserted[1][3] >= ttl
    /\ \E i \in 1..Len(cache) :
          /\ cache[i].key # call.key
          /\ call.at - cache[i].timestamp < ttl

\* C30: for the RedisCache built on the client the application configures
\* (decode_responses), the service answering, setex(k, t, v) with a v that
\* is not empty followed at once by get(k) returns v.
C30_RedisRoundTrip ==
    [][\A k \in Keys :
          (/\ call.op = "RedisCache.setex" /\ call.key = k
           /\ call.value # "" /\ call.at = now
           /\ RedisCache_get(k, TRUE)) =>
              call'.ret = call.value]_vars

\* ----------------------------------------------------- claims, cache key
\* the key generate_stream derives for prompt p, session ss and history h
KeyOf(p, ss, h) == _get_cache_key(p, _get_params(ss, TRUE), h)

\* the trailing window of a history: the up-to-9 turns before the last one,
\* each reduced to its role and its content cut to the budget
TrailingWindow(h) ==
    IF Len(h) <= 1 THEN <<>>
    ELSE [i \in 1..Min(Len(h) - 1, 9) |->
            LET m == h[Max(1, Len(h) - 9) + i - 1]
            IN  <<m.role, Take(m.content, 100)>>]

\* the positions of a history that lie in its trailing window
WindowIndices(h) ==
    IF Len(h) <= 1 THEN {} ELSE Max(1, Len(h) - 9)..(Len(h) - 1)

\* histories near h: one message replaced, the oldest dropped, an older one
\* put in front, one appended, the empty one and the one-message ones
HistoryVariants(h) ==
    {Replace(h, i, m) : i \in 1..Len(h), m \in MsgInputs}
    \cup {<<m>> \o h : m \in MsgInputs}
    \cup {Append(h, m) : m \in MsgInputs}
    \cup {<<m>> : m \in MsgInputs}
    \cup {SubSeq(h, 2, Len(h)), <<>>}

\* C4 (as claimed): two histories with equal trailing windows give, for the
\* same prompt and parameter values, the same key, the empty history and a
\* history of one message included.
C4_EqualWindowEqualKey ==
    pc = "derived" =>
        \A h \in HistoryVariants(messages) :
            TrailingWindow(h) = TrailingWindow(messages) =>
                KeyOf(prompt, sess, h) = cache_key

\* the characters a character of a content is changed to
Alphabet == {"b", "\""}

\* the contents that differ from c in one character among its first n
OneCharChanged(c, n) ==
    {SetChar(c, q, x) : q \in 1..Min(Len(c), n), x \in Alphabet} \ {c}

\* the sessions that differ from ss in the value of one parameter
OneSliderMoved(ss) ==
    ({[ss EXCEPT !.max_tokens = v] : v \in SliderValues.max_tokens}
     \cup {[ss EXCEPT !.temperature = v] : v \in SliderValues.temperature}
     \cup {[ss EXCEPT !.top_p = v] : v \in SliderValues.top_p}
     \cup {[ss EXCEPT !.rep_penalty = v] : v \in SliderValues.rep_penalty})
    \ {ss}

\* a change of the prompt, of one parameter value, or of one character among
\* the first n of the content of a message in the trailing window, changes
\* the key
SingleChangeChangesKey(n) ==
    /\ \A p \in Prompts \ {prompt} : KeyOf(p, sess, messages) # cache_key
    /\ \A ss \in OneSliderMoved(sess) : KeyOf(prompt, ss, messages) # cache_key
    /\ \A i \in WindowIndices(messages) :
          \A c \in OneCharChanged(messages[i].content, n) :
             KeyOf(prompt, sess,
                   Replace(messages, i, Message(messages[i].role, c)))
                # cache_key

\* C5 (as claimed): changing the prompt, one parameter value, or the content
\* of a message in the trailing window at any character position, changes
\* the key.
C5_AnyPositionChangesKey ==
    pc = "derived" => SingleChangeChangesKey(Len(Long100) + 1)

\* C5 (amended): changing the prompt, one parameter value, or the content of
\* a message in the trailing window at one of its first 100 character
\* positions, changes the key.
C5_First100ChangeKey ==
    pc = "derived" => SingleChangeChangesKey(100)

\* a key was derived with a message of more than 100 characters in the window
C5_Witness ==
    /\ pc = "derived"
    /\ \E i \in WindowIndices(messages) : Len(messages[i].content) > 100

\* C6: for a history of 11 or more messages, replacing a message older than
\* its last 10 by any message (role or content changed) leaves the key as it
\* is.
C6_OlderThanWindowIgnored ==
    (pc = "derived" /\ Len(messages) >= 11) =>
        \A i \in 1..(Len(messages) - 10), m \in MsgInputs :
            KeyOf(prompt, sess, Replace(messages, i, m)) = cache_key

\* a key was derived from 12 messages whose oldest one is long
C6_Witness ==
    /\ pc = "derived" /\ Len(messages) >= 12
    /\ Len(messages[1].content) > 100

\* ------------------------------------------------- claims, generate_stream
\* the call that just ended wrote its text to the cache
WroteToCache ==
    /\ pc = "done" /\ posts = 1
    /\ call.op \in {"setex", "redis_setex"} /\ call.ret = None

\* the text the backend of this call holds under key k
StoredText(k) ==
    IF redis_client THEN RedisGet(redis_store, k, now)
    ELSE IF Has(cache, k) THEN Item(cache, k).value ELSE None

\* C7: on the cache-miss path, for every sequence of transport lines, if the
\* call writes to the cache then the fragments it emitted, concatenated in
\* order, are the text written under the derived key.
C7_FragmentsAreCachedText ==
    WroteToCache =>
        /\ call.key = cache_key
        /\ cache_key = _get_cache_key(prompt, _get_params(sess, TRUE), messages)
        /\ Concat(emitted) = call.value
        /\ StoredText(cache_key) = call.value

\* a call read a generated_text chunk, a malformed line and a token chunk and
\* wrote to the cache
C7_Witness ==
    /\ WroteToCache
    /\ lines_read = 3
    /\ emitted = <<"H", "i", " ">>
    /\ call.value = "Hi "

\* C8: on a cache hit with stored text v, generate_stream run to completion
\* emits one fragment per character of v, in order, and their concatenation
\* is v.
C8_ReplayIsStoredText ==
    (pc = "done" /\ posts = 0) =>
        /\ cached_response = StoredText(cache_key)
        /\ Len(emitted) = Len(cached_response)
        /\ \A i \in 1..Len(emitted) : emitted[i] = CharAt(cached_response, i)
        /\ Concat(emitted) = cached_response

\* a second call found the text of the first one and replayed it
C8_Witness ==
    /\ pc = "done" /\ posts = 0
    /\ turns = 2 /\ saved.turn = 1 /\ saved.key = cache_key
    /\ cached_response = saved.text
    /\ Len(emitted) >= 2

\* what the contract lets a line be without matching a chunk shape: blank,
\* the sentinel, not JSON, or JSON that is neither an object with
\* generated_text (alone in a list or not) nor an object with a token object
\* that has a text
CarriesText(j) ==
    /\ j.t = "dict"
    /\ \/ "generated_text" \in DOMAIN j.fields
       \/ /\ "token" \in DOMAIN j.fields
          /\ j.fields.token.t = "dict"
          /\ "text" \in DOMAIN j.fields.token.fields

MatchesNoShape(line) ==
    \/ line.raw \in {"blank", "done"}
    \/ /\ line.raw = "data"
       /\ \/ line.body.t \in {"invalid", "undecodable"}
          \/ /\ ~CarriesText(line.body)
             /\ ~(/\ line.body.t = "list"
                  /\ Len(line.body.items) = 1
                  /\ CarriesText(line.body.items[1]))

\* C9: while the stream is read, a line that is blank, the sentinel, not
\* valid JSON, or JSON of neither chunk shape leaves the accumulator, the
\* emitted fragments and the received-token count as they are, and the call
\* goes on to the next line.
C9_SkippedLinesChangeNothing ==
    [][\A line \in {l \in Lines : MatchesNoShape(l)} :
          ReadLine(line, MaxLines) =>
              /\ full_response' = full_response
              /\ emitted' = emitted
              /\ tokens_received' = tokens_received
              /\ pc' = "reading"]_vars

\* the second call of the scenario has looked its key up: "Hello", no
\* earlier turns, default parameters, after a first such call cached its
\* text under the same key in the same kind of store, the TTL not over and
\* the lookup not failing
SecondIdenticalCall ==
    /\ pc \in {"replay", "posting"}
    /\ prompt = "Hello" /\ messages = <<Message("user", "Hello")>>
    /\ sess = DefaultSess
    /\ turns = 2 /\ saved.turn = 1 /\ saved.key = cache_key
    /\ saved.store = (IF redis_client THEN "redis" ELSE "simple")
    /\ now - saved.at < ttl
    /\ call.op # "redis_error"

\* C10: a second call with the prompt, history and parameters of a first
\* call that cached its text T under K, made before the TTL is over, hits
\* the cache under K and replays T without calling the remote endpoint.
C10_SecondCallHits ==
    SecondIdenticalCall =>
        /\ cached_response = saved.text
        /\ pending = saved.text
        /\ posts = 0

\* ------------------------------------------------- claims, the two entries
\* C11: for every prompt, history and parameter values, generate and
\* generate_stream derive the same cache key.
C11_SameKeyBothEntries ==
    pc = "derived" => GenerateKey(prompt, sess, messages) = cache_key

\* ------------------------------------------------- claims, failures
\* C12: when the remote call fails, at the request or while the stream is
\* read after any number of fragments, generate_stream yields exactly one
\* error fragment, as its last fragment, then ends, and the call writes
\* nothing to the cache.
C12_FailureEndsWithOneError ==
    pc = "failed" =>
        /\ emitted # <<>>
        /\ emitted[Len(emitted)] = ErrorFragment
        /\ \A i \in 1..(Len(emitted) - 1) : emitted[i] # ErrorFragment
        /\ ~ENABLED StreamNext
        /\ call.op \notin {"setex", "redis_setex"}
        /\ cache = <<>> /\ redis_store \in {{}, StoredBefore} /\ saved = NoSave

\* the stream failed after text was accumulated and fragments were yielded
C12_Witness ==
    /\ pc = "failed"
    /\ Len(emitted) >= 4
    /\ full_response # ""

\* the store the running call looked its key up in
StoreInUse == IF redis_client THEN "redis" ELSE "simple"

\* C13: the cache backend is chosen once: over any sequence of requests,
\* script reruns included, every lookup goes to the store that the earlier
\* writes of the session went to.
C13_BackendChosenOnce ==
    (pc \in {"replay", "posting"} /\ saved.store # None) =>
        saved.store = StoreInUse

\* C14: no cache operation raises to its caller, whatever the capacity
\* (0 included) and the state: get returns a value or None, setex and clear
\* return normally.
C14_NoOperationRaises ==
    call.op \in {"get", "setex", "clear"} => call.ret # "ValueError"

\* the lookup of the running call failed in Redis
RedisGetFailed == call.op = "redis_error" /\ call.value = None

\* the write of the call that just ended failed in Redis
RedisSetexFailed == call.op = "redis_error" /\ call.value # None

\* C15: with Redis selected, a get that fails is a miss and the request goes
\* to the remote endpoint, a setex that fails writes nothing and the call
\* still ends normally, the selection stays, and the in-process store is
\* neither read nor written.
C15_RedisFailureIsMissOrNoOp ==
    redis_client =>
        /\ cache = <<>>
        /\ call.op \notin {"get", "setex"}
        /\ RedisGetFailed =>
              /\ cached_response = None
              /\ pc # "replay" /\ posts = 1
        /\ RedisSetexFailed =>
              /\ pc = "done"
              /\ redis_store \in {{}, StoredBefore} /\ saved = NoSave
              /\ Concat(emitted) = full_response
              /\ total_tokens_received = tokens_received

\* a call that went to the remote endpoint ended while its write to Redis
\* failed
C15_Witness ==
    /\ redis_client
    /\ RedisSetexFailed
    /\ pc = "done" /\ posts = 1
    /\ full_response = "Hi"

\* C16: when the caller abandons the stream before it ends, on the
\* remote-call path or on the replay path, the text accumulated so far is
\* dropped and the call writes nothing to the cache.
C16_AbandonWritesNothing ==
    pc = "abandoned" =>
        /\ full_response = ""
        /\ cache = <<>> /\ redis_store \in {{}, StoredBefore} /\ saved = NoSave
        /\ call.op \in {"get", "redis_get", "redis_error"}
        /\ total_tokens_sent = 0 /\ total_tokens_received = 0
        /\ ~ENABLED StreamNext

\* a call was abandoned on the remote-call path after a whole chunk and a
\* part of the next one were yielded
C16_Witness ==
    /\ pc = "abandoned" /\ posts = 1
    /\ lines_read = 2
    /\ emitted = <<"H", "i", "a">>

\* ------------------------------------------------- claims, threads
\* the threads inside a cache operation
Inside == {t \in Threads : threads[t].pc # "out"}

\* C17: with several threads calling get, setex and clear on one cache of
\* capacity C >= 1, at most one thread is inside an operation at a time and
\* the number of stored entries never exceeds C.
C17_OneThreadInsideSizeBounded ==
    max_size >= 1 =>
        /\ Cardinality(Inside) <= 1
        /\ Inside = (IF lock = 0 THEN {} ELSE {lock})
        /\ Len(cache) <= max_size

\* a setex has evicted the oldest key of a full cache and has not stored
\* yet, the other threads being kept out
C17_Witness ==
    /\ max_size = MaxCap
    /\ \E t \in Threads :
          /\ threads[t].pc = "room"
          /\ threads[t].evicted # None
          /\ Len(cache) = max_size - 1

\* a text, and not the empty one
Found(x) == x \notin {None, ""}

\* the call that just ended handed a text that is not empty to its caller
CompletedWithText ==
    \/ pc = "done" /\ Concat(emitted) # ""
    \/ pc = "returned" /\ Found(emitted[1])

\* C18: every call of generate or of generate_stream that completes with a
\* text that is not empty increases the session's two token counters.
C18_BothEntriesCountTokens ==
    CompletedWithText =>
        /\ total_tokens_sent > 0
        /\ total_tokens_received > 0

\* C20: in every call of generate_stream and of generate the cache lookup
\* comes before any remote request: none is issued on a hit, exactly one on
\* a miss.
C20_LookupThenAtMostOneRequest ==
    /\ posts \in {0, 1}
    /\ posts = 1 =>
          /\ call.op # "init"
          /\ cache_key # None
          /\ pc = "abandoned" \/ ~Found(cached_response)
    /\ pc \notin {"created", "abandoned"} =>
          posts = (IF Found(cached_response) THEN 0 ELSE 1)

\* the call went to the remote endpoint and its stream ended with nothing
\* accumulated
EndedEmpty == pc = "done" /\ posts = 1 /\ full_response = ""

\* C26: a generate_stream call whose remote stream ends normally with an
\* empty accumulator writes nothing to the cache and emits no fragment, and
\* its UI caller, finding no text, shows the fallback message and appends no
\* assistant turn.
C26_EmptyStreamEmitsNothing ==
    EndedEmpty =>
        /\ emitted = <<>>
        /\ call.op \notin {"setex", "redis_setex"}
        /\ cache = <<>> /\ redis_store \in {{}, StoredBefore} /\ saved = NoSave
        /\ ~HasText(Concat(emitted))

\* the received tokens the contract counts for a chunk: the words of a
\* generated_text, one for a token object with a text, none otherwise
ChunkTokens(c) ==
    IF ~CarriesText(c) THEN 0
    ELSE IF "generated_text" \in DOMAIN c.fields
    THEN WordCount(c.fields.generated_text.s)
    ELSE 1

RECURSIVE SumTokens(_)
SumTokens(q) ==
    IF q = <<>> THEN 0 ELSE ChunkTokens(Head(q)) + SumTokens(Tail(q))

\* C27: a generate_stream call that completes with a text that is not empty
\* increases the counters once, after its last fragment: tokens sent by the
\* word count of the formatted prompt, tokens received by the word count of
\* the cached text on a hit, and on a miss by the words of each
\* generated_text chunk plus one per token chunk, summed over the accepted
\* chunks. (The counters of the call's session start at 0.)
C27_CountersAddedOnce ==
    /\ pc \in {"created", "posting", "reading", "chars", "replay"} =>
          total_tokens_sent = 0 /\ total_tokens_received = 0
    /\ (pc = "done" /\ posts = 0) =>
          /\ total_tokens_sent = WordCount(format_prompt(prompt, messages))
          /\ total_tokens_received = WordCount(cached_response)
    /\ (pc = "done" /\ posts = 1 /\ full_response # "") =>
          /\ total_tokens_sent = WordCount(format_prompt(prompt, messages))
          /\ total_tokens_received = SumTokens(chunks)

\* C28: a generate_stream call that fails, that ends with an empty
\* accumulator or that its caller abandons leaves both counters as they
\* were: the counters change only in the step that completes a call with a
\* text; and over any sequence of calls no counter ever decreases.
C28_CountersOnlyGrowOnCompletion ==
    [][/\ total_tokens_sent' >= total_tokens_sent
       /\ total_tokens_received' >= total_tokens_received
       /\ countVars' # countVars =>
             /\ pc' = "done"
             /\ posts' = 0 \/ full_response' # ""
       /\ (\/ pc' \in {"failed", "abandoned", "raised"}
           \/ (pc' = "done" /\ posts' = 1 /\ full_response' = "")) =>
             countVars' = countVars]_vars

\* a call was abandoned after an earlier call of the sequence had completed
\* and was counted
C28_Witness ==
    /\ pc = "abandoned" /\ emitted # <<>>
    /\ turns = 2
    /\ total_tokens_sent > 0 /\ total_tokens_received > 0

\* C29: generate_stream is finite: the replay of a cached text v yields
\* exactly Len(v) fragments and ends, and on the remote-call path, for every
\* finite sequence of lines, each line is taken once and the call that can
\* take no further step has reached Completed or Failed (or was abandoned by
\* its caller).
C29_EveryCallEndsCompletedOrFailed ==
    /\ (pc = "done" /\ posts = 0) => Len(emitted) = Len(cached_response)
    /\ pc = "replay" => Len(emitted) + Len(pending) = Len(cached_response)
    /\ lines_read <= MaxLines
    /\ (pc # "created" /\ ~ENABLED StreamNext) =>
          pc \in {"done", "failed", "abandoned"}

\* generate returned the text it found in the cache without a request
C20_Witness ==
    /\ pc = "returned"
    /\ posts = 0
    /\ emitted = <<"Hey">>
    /\ cached_response = "Hey"

\* C19: the messages of the trailing window are cut to the same budget in the
\* key and in the formatted prompt, so two requests that derive the same key
\* send the same formatted prompt.
C19_SameKeySamePrompt ==
    pc = "derived" =>
        \A h \in HistoryVariants(messages) :
            KeyOf(prompt, sess, h) = cache_key =>
                format_prompt(prompt, h) = format_prompt(prompt, messages)

\* ------------------------------------------------- claims, requests
\* the text of the chunk of a line, empty for a line of no chunk shape
LineText(line) ==
    IF MatchesNoShape(line) THEN ""
    ELSE LET c == IF line.body.t = "list" THEN line.body.items[1]
                  ELSE line.body
         IN  IF "generated_text" \in DOMAIN c.fields
             THEN c.fields.generated_text.s
             ELSE c.fields.token.fields.text.s

\* the texts of the chunks of a whole stream, one after another
RECURSIVE StreamText(_)
StreamText(q) ==
    IF q = <<>> THEN "" ELSE LineText(Head(q)) \o StreamText(Tail(q))

\* the keys and the values in the store of the process
StoredPairs ==
    IF redis_client
    THEN {<<x.key, x.value>> : x \in redis_store}
    ELSE {<<cache[i].key, cache[i].value>> : i \in 1..Len(cache)}

\* the requests that missed, read their whole stream and returned
Completed(k) ==
    {t \in Threads : /\ threads[t].pc = "done"
                     /\ threads[t].posts = 1
                     /\ threads[t].cache_key = k}

\* C21: under any interleaving of concurrent generate_stream requests on one
\* cache, two requests with one key that both miss and both call the remote
\* endpoint included, every value stored under a key is the complete
\* accumulated text of one request that ran to completion for that key:
\* never the text of a failed, abandoned or running request, never a mix of
\* the texts of two requests.
C21_StoredIsOneCompleteText ==
    \A kv \in StoredPairs :
        \E t \in Completed(kv[1]) : kv[2] = StreamText(ReqStream(t))

\* two requests with one key both missed, both called the remote endpoint
\* and both completed, with different texts; the store holds the text of
\* the first request, the last one written
C21_Witness ==
    /\ {1, 2} \subseteq Completed(threads[1].cache_key)
    /\ StreamText(ReqStream(1)) # StreamText(ReqStream(2))
    /\ StoredPairs = {<<threads[1].cache_key, StreamText(ReqStream(1))>>}
    /\ saved.text = StreamText(ReqStream(1))

\* ------------------------------------------------- claims, the chat history
\* the turns before the last message, the nine most recent at most
PriorTurns ==
    LET n == Min(9, Len(messages) - 1)
    IN  [i \in 1..n |-> messages[Len(messages) - 1 - n + i]]

\* the key of the live prompt over the prior turns
PriorKey ==
    "hf_cache:" \o Md5Hex("v1:" \o prompt \o ":[" \o JsonList(PriorTurns)
                             \o "]:" \o JsonParams(_get_params(sess, TRUE)))

\* the formatted prompt of the live prompt over the prior turns
PriorPrompt ==
    "<|im_start|>system\n" \o SystemPrompt \o "\n<|im_end|>\n"
        \o ConversationContext(PriorTurns)
        \o "<|im_start|>user\n" \o prompt \o "\n<|im_end|>\n<|im_start|>assistant\n"

\* generate_stream derives the key and formats the prompt in this step
Derives == pc = "created" /\ pc' \in {"replay", "posting"}

\* this step appends an assistant turn to the messages
AppendsAssistant ==
    /\ Len(messages') = Len(messages) + 1
    /\ messages'[Len(messages')].role = "assistant"

\* C31: in every key derivation and prompt formatting reachable through the
\* UI, the user turn of the live prompt is already the last element of the
\* history, so the trailing window is exactly the up-to-9 turns that precede
\* the live prompt and never drops the most recent prior turn; an assistant
\* turn is appended only after the stream has ended.
C31_LivePromptIsLastTurn ==
    [][/\ Derives =>
             /\ messages # <<>>
             /\ messages[Len(messages)] = Message("user", prompt)
             /\ Len(PriorTurns) = Min(9, Len(messages) - 1)
             /\ Len(messages) > 1 =>
                    PriorTurns[Len(PriorTurns)] = messages[Len(messages) - 1]
             /\ cache_key' = PriorKey
             /\ tokens_sent' = WordCount(PriorPrompt)
       /\ AppendsAssistant =>
             /\ pc \in {"done", "failed"}
             /\ pending = ""
             /\ SubSeq(messages', 1, Len(messages)) = messages
       /\ pc \in {"created", "replay", "posting", "reading", "chars"} =>
             messages' = messages]_vars

\* the second prompt of a session, with more than ten messages behind it:
\* the key is derived over the nine turns before the live prompt, the
\* answer to the first prompt the last of them, and the older turns are
\* outside the window
C31_Witness ==
    /\ pc = "posting"
    /\ turns = 2
    /\ Len(messages) > WindowSize
    /\ messages[Len(messages)] = Message("user", prompt)
    /\ messages[Len(messages) - 1].role = "assistant"
    /\ messages[Len(messages) - 2].role = "user"
    /\ Len(PriorTurns) = 9
    /\ PriorTurns[9] = messages[Len(messages) - 1]
    /\ cache_key = PriorKey
    /\ prompt # "Hello"

====
